---- MODULE Spec2Model ----
(***************************************************************************)
(* A model of the ash game engine (src/src/ash): the command registry of   *)
(* Game, the regex command parser, and the two coroutines that Game.run    *)
(* gathers on one asyncio event loop: user_loop and background_loop.       *)
(*                                                                         *)
(* Strings are sequences of one-character strings, so that str.split,      *)
(* regex.fullmatch and the int coercion are computed, not assumed.         *)
(* A step of a coroutine is everything it does between two suspension      *)
(* points (await of a line, of a sleep, or inside a hook or action): on a  *)
(* single-threaded event loop nothing else runs in between.                *)
(***************************************************************************)
EXTENDS Integers, Sequences, FiniteSets, TLC

\* ------------------------------------------------------------------ bounds
MaxLines == 2      \* lines that arrive on the console during one run
MaxTime == 4       \* length of the observed run, in clock ticks
MaxDelay == 2      \* largest configured background_delay, in clock ticks
MaxRegs == 3       \* register_command calls made during setup
MaxTimer == 3      \* background task invocations followed outside the observed window
MaxText == 3       \* length of the strings handed to Command.parse
MaxCalls == 2      \* invocations of the action by direct calls of Command.execute

None == "None"
NoLine == <<None>>          \* no line read yet
NoOutput == <<>>            \* nothing printed
NoCommand == [name |-> <<>>, cmd |-> None, value |-> None]

\* The outcomes of Game.run
NotRun == <<"not run">>
Running == <<"running">>
Cancelled == <<"cancelled">>
RaisedBy(coroutine) == <<"raised", coroutine>>

\* ----------------------------------------------------------------- strings
Digits == {"0", "1", "2", "3", "4", "5", "6", "7", "8", "9"}
Whitespace == {" "}

DigitVal(c) ==
    CASE c = "0" -> 0 [] c = "1" -> 1 [] c = "2" -> 2 [] c = "3" -> 3
      [] c = "4" -> 4 [] c = "5" -> 5 [] c = "6" -> 6 [] c = "7" -> 7
      [] c = "8" -> 8 [] c = "9" -> 9

RECURSIVE lstrip(_)
lstrip(s) ==
    IF s # <<>> /\ Head(s) \in Whitespace THEN lstrip(Tail(s)) ELSE s

\* Index of the first whitespace character of s, or Len(s) + 1.
RECURSIVE firstWs(_, _)
firstWs(s, i) ==
    IF i > Len(s) \/ s[i] \in Whitespace THEN i ELSE firstWs(s, i + 1)

\* str.split(maxsplit=1): leading whitespace is dropped, the first word is
\* the token, and what follows the whitespace after it (kept as it is, with
\* any trailing whitespace) is the remainder. No word gives the empty list.
split(line) ==
    LET s == lstrip(line)
        k == firstWs(s, 1)
        rest == IF k > Len(s) THEN <<>> ELSE lstrip(SubSeq(s, k + 1, Len(s)))
    IN  IF s = <<>> THEN <<>>
        ELSE IF rest = <<>> THEN <<SubSeq(s, 1, k - 1)>>
        ELSE <<SubSeq(s, 1, k - 1), rest>>

\* ----------------------------------------------------------------- parsing
\* The commands of the example game that the run is followed with, named by
\* their schema classes.
AddCommand == "AddCommand"
ViewCommand == "ViewCommand"
Cmds == {AddCommand, ViewCommand}

\* The third command of the example game, and a command a game may create
\* with create_command: its group is optional and its field has a default
\* and no description,
\*     @create_command(regex=r"(?P<value>[\d-]+)?")
\*     class OptionalCommand(pydantic.BaseModel):
\*         value: int = 1
AddMultipleCommand == "AddMultipleCommand"
OptionalCommand == "OptionalCommand"
Schemas == Cmds \cup {AddMultipleCommand, OptionalCommand}

w_counter == <<"c", "o", "u", "n", "t", "e", "r">>
w_timer == <<"t", "i", "m", "e", "r">>
w_n_actions == <<"n", "_", "a", "c", "t", "i", "o", "n", "s">>

pattern(cmd) ==
    IF cmd = AddCommand THEN "(?P<value>[\\d-]+)"
    ELSE IF cmd = AddMultipleCommand THEN "(?:(?P<values>[\\d-]+)\\s{0,1})+"
    ELSE IF cmd = OptionalCommand THEN "(?P<value>[\\d-]+)?"
    ELSE "(?P<value>counter|timer|n_actions)"

\* s matches [\d-]+
IsNumberText(s) == Len(s) >= 1 /\ \A i \in 1..Len(s) : s[i] \in Digits \cup {"-"}

\* cpattern.fullmatch(command): the whole of s must match the pattern.
fullmatch(cmd, s) ==
    IF cmd = AddCommand THEN IsNumberText(s)
    ELSE IF cmd = AddMultipleCommand
    THEN /\ Len(s) >= 1 /\ s[1] \notin Whitespace
         /\ \A i \in 1..Len(s) : s[i] \in Digits \cup {"-"} \cup Whitespace
         /\ \A i \in 1..(Len(s) - 1) : ~(s[i] \in Whitespace /\ s[i + 1] \in Whitespace)
    ELSE IF cmd = OptionalCommand THEN s = <<>> \/ IsNumberText(s)
    ELSE s \in {w_counter, w_timer, w_n_actions}

\* The maximal runs of characters other than whitespace in s, in order.
RECURSIVE runs(_)
runs(s) ==
    LET t == lstrip(s)
        k == firstWs(t, 1)
    IN  IF t = <<>> THEN <<>>
        ELSE <<SubSeq(t, 1, k - 1)>> \o runs(SubSeq(t, k, Len(t)))

\* match.captures(name) after a full match of s: everything the named group
\* of the pattern captured, in match order. The group of AddMultipleCommand
\* is repeated and greedy: it captures each run of [\d-]; an optional group
\* that did not participate captured nothing.
captures(cmd, s) ==
    IF cmd = AddMultipleCommand THEN runs(s)
    ELSE IF cmd = OptionalCommand /\ s = <<>> THEN <<>>
    ELSE <<s>>

\* What the parser hands to validation for a field: a str, a list of str, or
\* None.
RawNone == [kind |-> "None", text |-> <<>>, items |-> <<>>]
RawStr(s) == [kind |-> "str", text |-> s, items |-> <<>>]
RawList(l) == [kind |-> "list", text |-> <<>>, items |-> l]

\* match.group(name): what the group captured last, or None when it did not
\* participate in the match.
group(cmd, s) ==
    IF captures(cmd, s) = <<>> THEN RawNone
    ELSE RawStr(captures(cmd, s)[Len(captures(cmd, s))])

\* The keys of match.groupdict(): every named group of the pattern, whether
\* or not it participated in the match.
groupdict(cmd) == IF cmd = AddMultipleCommand THEN {"values"} ELSE {"value"}

\* schema.model_fields: the one field of each schema, its annotation, and its
\* default when it has one.
model_field(cmd) == IF cmd = AddMultipleCommand THEN "values" ELSE "value"
annotation(cmd) ==
    IF cmd = AddMultipleCommand THEN "list[int]"
    ELSE IF cmd = ViewCommand THEN "str" ELSE "int"
HasDefault(cmd) == cmd = OptionalCommand
Default(cmd) == 1

type_is_list(t) == t \in {"list", "list[int]"}

\* Params with match.group used for every field, list or not.
ParamsGroupOnly(cmd, s) ==
    IF model_field(cmd) \in groupdict(cmd)
    THEN [present |-> TRUE, raw |-> group(cmd, s)]
    ELSE [present |-> FALSE, raw |-> RawNone]

\* The params dict of RegexCommandParser.parse: the field is a key when its
\* name is a key of groupdict.
Params(cmd, s) ==
    IF model_field(cmd) \in groupdict(cmd)
    THEN [present |-> TRUE,
          raw |-> IF type_is_list(annotation(cmd)) THEN RawList(captures(cmd, s))
                  ELSE group(cmd, s)]
    ELSE [present |-> FALSE, raw |-> RawNone]

\* The int coercion of a captured string: an optional sign, then digits.
IsInt(s) ==
    LET d == IF s # <<>> /\ Head(s) = "-" THEN Tail(s) ELSE s
    IN  Len(d) >= 1 /\ \A i \in 1..Len(d) : d[i] \in Digits

RECURSIVE NatVal(_)
NatVal(d) ==
    IF d = <<>> THEN 0
    ELSE 10 * NatVal(SubSeq(d, 1, Len(d) - 1)) + DigitVal(d[Len(d)])

IntVal(s) == IF Head(s) = "-" THEN 0 - NatVal(Tail(s)) ELSE NatVal(s)

\* schema.model_validate(params): a field that is no key of params takes its
\* default; a field that is a key is coerced to its annotation, and None is
\* neither an int, a str nor a list.
model_validate(cmd, p) ==
    LET invalid == [ok |-> FALSE, value |-> None]
    IN  IF ~p.present
        THEN IF HasDefault(cmd) THEN [ok |-> TRUE, value |-> Default(cmd)] ELSE invalid
        ELSE IF annotation(cmd) = "int"
        THEN IF p.raw.kind = "str" /\ IsInt(p.raw.text)
             THEN [ok |-> TRUE, value |-> IntVal(p.raw.text)] ELSE invalid
        ELSE IF annotation(cmd) = "str"
        THEN IF p.raw.kind = "str" THEN [ok |-> TRUE, value |-> p.raw.text] ELSE invalid
        ELSE IF p.raw.kind = "list" /\ \A i \in 1..Len(p.raw.items) : IsInt(p.raw.items[i])
             THEN [ok |-> TRUE,
                   value |-> [i \in 1..Len(p.raw.items) |-> IntVal(p.raw.items[i])]]
             ELSE invalid

\* RegexCommandParser.parse: the result, or the CommandParseError's message.
parse(cmd, s) ==
    IF ~fullmatch(cmd, s)
    THEN [ok |-> FALSE, msg |-> <<"Command does not match pattern: ", pattern(cmd)>>]
    ELSE LET v == model_validate(cmd, Params(cmd, s))
         IN  IF v.ok THEN [ok |-> TRUE, value |-> v.value]
             ELSE [ok |-> FALSE, msg |-> <<"Parameters failed to validate.">>]

\* ------------------------------------------------------------------- state
VARIABLES
    show_help,         \* GameConfig.show_help
    background_delay,  \* GameConfig.background_delay, in clock ticks
    commands,          \* Game.commands: a dict, as its <<name, command>> items in insertion order
    tasks,             \* Game.tasks: the task types that are bound
    action,            \* Command.action of each command: the action bound, or None
    decorators,        \* names whose decorator register_command has returned
    regName,           \* the name passed to the last register_command call
    regErr,            \* the error that call raised (class and message), or none
    nregs,             \* register_command calls made so far
    started,           \* Game.run has been called
    upc,               \* where user_loop is
    bgpc,              \* where background_loop is
    outcome,           \* the outcome of Game.run
    stdin,             \* a line is waiting on the console
    line,              \* the line user_loop read last
    nlines,            \* lines that have arrived so far
    cur,               \* the command user_loop is executing: its name and params
    calls,             \* hooks and action invoked for the line handled last
    out,               \* what user_loop printed for the line handled last
    data,              \* the shared game data passed to run
    window,            \* length of the observation window, 0 when the clock is not observed
    now,               \* the clock of the observation window: ticks since run, up to window
    remaining,         \* clock ticks left of the pending asyncio.sleep
    bgCalls,           \* invocations of the background task within the window
    bgBusy,            \* clock ticks within the window spent inside the background task
    self,              \* a Command object whose methods are called directly: its schema
    arg,               \* the string handed to that command's parse
    ret                \* the method of that command called last, and how it ended

config == <<show_help, background_delay, window>>
setupVars == <<commands, tasks, action, decorators, regName, regErr, nregs>>
userVars == <<upc, cur, calls, out>>
bgVars == <<bgpc, remaining, bgCalls, bgBusy>>
commandVars == <<self, arg, ret>>
vars == <<config, commandVars, setupVars, started, userVars, bgVars, outcome, stdin,
          nlines, line, data, now>>

t_add == <<"a", "d", "d">>
t_view == <<"v", "i", "e", "w">>
t_help == <<"h", "e", "l", "p">>
t_bogus == <<"b", "o", "g", "u", "s">>
Names == {t_add, t_view, t_help}
TaskTypes == {"pre_command", "post_command", "background"}

\* dict operations on the items sequence
Keys(d) == {d[i][1] : i \in 1..Len(d)}
Get(d, k) == d[CHOOSE i \in 1..Len(d) : d[i][1] = k][2]
Put(d, k, v) ==
    IF k \in Keys(d)
    THEN [i \in 1..Len(d) |-> IF d[i][1] = k THEN <<k, v>> ELSE d[i]]
    ELSE Append(d, <<k, v>>)

\* The actions of examples/example_game.py, and an action without a
\* docstring that a game may bind:
\*     async def bare_action(data, params): pass
Actions == {"add_action", "addmul_action", "view_action", "bare_action"}

\* The registrations of examples/example_game.py; nothing is bound to
\* OptionalCommand.
ExampleActions ==
    [c \in Schemas |-> IF c = AddCommand THEN "add_action"
                       ELSE IF c = AddMultipleCommand THEN "addmul_action"
                       ELSE IF c = ViewCommand THEN "view_action" ELSE None]
ExampleCommands == <<<<t_add, AddCommand>>, <<t_view, ViewCommand>>>>

\* ------------------------------------------------------------------- setup
\* The two errors of register_command, each by its class and message, and
\* no error.
ReservedName ==
    <<"ValueError", "Cannot register a command named \"help\" when show_help is True.">>
DuplicateName(name) ==
    <<"ValueError", "Command with name \"", name, "\" already registered.">>
NoError == <<>>

\* register_check without the test for the reserved name.
register_check_unreserved(name) ==
    IF name \in Keys(commands) THEN DuplicateName(name) ELSE NoError

\* What Game.register_command(name) raises before it returns its decorator.
register_check(name) ==
    IF show_help /\ name = t_help THEN ReservedName
    ELSE IF name \in Keys(commands) THEN DuplicateName(name)
    ELSE NoError

\* Game.register_command(name): raises, or returns the decorator for name.
register_command(name) ==
    /\ ~started
    /\ nregs < MaxRegs
    /\ nregs' = nregs + 1
    /\ regName' = name
    /\ regErr' = register_check(name)
    /\ decorators' = IF register_check(name) = NoError
                     THEN decorators \cup {name} ELSE decorators
    /\ UNCHANGED <<config, commandVars, commands, tasks, action, started, userVars, bgVars,
                   outcome, stdin, nlines, line, data, now>>

\* The decorator register_command(name) returned, applied to a command.
decorator(name, command) ==
    /\ ~started
    /\ name \in decorators
    /\ commands' = Put(commands, name, command)
    /\ UNCHANGED <<config, commandVars, tasks, action, decorators, regName, regErr, nregs, started,
                   userVars, bgVars, outcome, stdin, nlines, line, data, now>>

\* Game.register_task(task_type) and its decorator: the task is bound.
register_task(task_type) ==
    /\ ~started
    /\ tasks' = tasks \cup {task_type}
    /\ UNCHANGED <<config, commandVars, commands, action, decorators, regName, regErr, nregs, started,
                   userVars, bgVars, outcome, stdin, nlines, line, data, now>>

\* No method of a Command has been called directly.
NoCall == [op |-> None, status |-> None, value |-> None]

NoData == [timer |-> 0, n_actions |-> 0, counter |-> 0, n_post |-> 0]

\* The part of the state that Game.run starts from, before run is called.
NotStarted ==
    /\ started = FALSE
    /\ upc = "init" /\ bgpc = "init" /\ outcome = NotRun
    /\ stdin = FALSE /\ nlines = 0 /\ line = NoLine
    /\ cur = NoCommand /\ calls = <<>> /\ out = NoOutput
    /\ data = NoData
    /\ now = 0 /\ remaining = 0 /\ bgCalls = 0 /\ bgBusy = 0
    /\ self = None /\ arg = <<>> /\ ret = NoCall

\* Game.__init__: no commands, no tasks.
SetupInit ==
    /\ show_help \in BOOLEAN
    /\ background_delay = 1
    /\ window = 0
    /\ commands = <<>>
    /\ tasks = {}
    /\ action = ExampleActions
    /\ decorators = {}
    /\ regName = <<>>
    /\ regErr = NoError
    /\ nregs = 0
    /\ NotStarted

SetupNext ==
    \/ \E name \in Names : register_command(name)
    \/ \E name \in Names, command \in Cmds : decorator(name, command)
    \/ \E task_type \in TaskTypes : register_task(task_type)

SetupSpec == SetupInit /\ [][SetupNext]_vars

\* ------------------------------------------------------------- the console
L_empty == <<>>
L_blank == <<" ">>
L_add == t_add
L_add_1 == t_add \o <<" ", "1">>
L_add_neg == t_add \o <<" ", "-", "2">>
L_add_dash == t_add \o <<" ", "-">>
L_add_abc == t_add \o <<" ", "a", "b", "c">>
L_bogus == t_bogus
L_help == t_help
L_help_add == t_help \o <<" ">> \o t_add
L_help_bogus == t_help \o <<" ">> \o t_bogus
L_view_timer == t_view \o <<" ">> \o w_timer
L_help_timer == t_help \o <<" ">> \o w_timer
L_help_add_1 == t_help \o <<" ">> \o t_add \o <<" ", "1">>
L_help_blank == <<" ">> \o t_help \o <<" ", " ">>
Lines == {L_empty, L_blank, L_add, L_add_1, L_add_neg, L_add_dash, L_add_abc, L_bogus,
          L_help, L_help_add, L_help_bogus, L_view_timer}

\* ---------------------------------------------------------------- messages
NoDescription == "No description available."
\* NotFound without the token.
NotFoundUnnamed(token) == <<"Command not found.">>

NotFound(token) == <<"Command \"", token, "\" not found.">>

\* The docstrings and field descriptions of examples/example_game.py; the
\* __doc__ of an action without docstring and the description of a field
\* without one are None.
schema_doc(cmd) ==
    IF cmd = AddCommand THEN "A command to add a value to the counter."
    ELSE IF cmd = AddMultipleCommand THEN "A command to add multiple values to the counter."
    ELSE IF cmd = ViewCommand THEN "A command to view a value."
    ELSE None
action_doc(a) ==
    IF a = "add_action" THEN "Adds the value to the counter."
    ELSE IF a = "addmul_action" THEN "Adds the values to the counter."
    ELSE IF a = "view_action" THEN "Views the value."
    ELSE None
field_doc(cmd) ==
    IF cmd = AddCommand THEN "The value to add to the counter."
    ELSE IF cmd = AddMultipleCommand THEN "The values to add to the counter."
    ELSE IF cmd = ViewCommand
    THEN "The value to view. Can be \"counter\", \"timer\", or \"n_actions\"."
    ELSE None

\* str(x) of an f-string field, for x a str or None: None reads "None".
str(x) == IF x = None THEN "None" ELSE x

\* Game.help_message(): every command's name and schema docstring, in dict order.
help_message ==
    <<"Commands:", [i \in 1..Len(commands) |->
                       <<commands[i][1],
                         IF schema_doc(commands[i][2]) # None
                         THEN schema_doc(commands[i][2]) ELSE NoDescription>>]>>

\* Command.help_message()
command_help_message(cmd) ==
    LET command_doc == IF action[cmd] # None THEN action_doc(action[cmd])
                       ELSE NoDescription
        param_doc == IF field_doc(cmd) # None THEN field_doc(cmd) ELSE NoDescription
    IN  <<str(command_doc),
          "Usage:", <<"Pattern: ", pattern(cmd)>>,
          "Parameters:", <<<<model_field(cmd), str(param_doc)>>>>>>

\* ------------------------------------------------------- hooks and actions
\* The tasks and actions of examples/example_game.py, and a post_command task
\* that counts in a field of its own.
pre_command_task(d) == [d EXCEPT !.n_actions = @ + 1]
post_command_task(d) == [d EXCEPT !.n_post = @ + 1]
\* background_task writing back a copy of the data taken when run started.
background_task_stale(d) == [NoData EXCEPT !.timer = d.timer + 1]

background_task(d) == [d EXCEPT !.timer = @ + 1]
add_action(d, value) == [d EXCEPT !.counter = @ + value]
RECURSIVE sum(_)
sum(values) == IF values = <<>> THEN 0 ELSE Head(values) + sum(Tail(values))
addmul_action(d, values) == [d EXCEPT !.counter = @ + sum(values)]
getattr(d, name) ==
    IF name = w_counter THEN d.counter
    ELSE IF name = w_timer THEN d.timer ELSE d.n_actions

\* What a coroutine called with await does: it returns without suspending, it
\* suspends at an await of its own, or it raises.
Behaviours == {"return", "suspend", "raise"}

\* The three awaits of a parsed command, in the order of user_loop.
Stages == <<"pre_command", "action", "post_command">>

\* IsBound with the test of Command.execute for an action left out.
IsBoundUntested(k, c) == IF k = 2 THEN TRUE ELSE Stages[k] \in tasks

\* Whether user_loop has something to call at stage k of command c.
IsBound(k, c) == IF k = 2 THEN action[c.cmd] # None ELSE Stages[k] \in tasks

\* The body of the task or action of stage k, run on st.
Invoke(k, c, st) ==
    [data  |-> IF k = 1 THEN pre_command_task(st.data)
               ELSE IF k = 3 THEN post_command_task(st.data)
               ELSE IF action[c.cmd] = "add_action" THEN add_action(st.data, c.value)
               ELSE IF action[c.cmd] = "addmul_action" THEN addmul_action(st.data, c.value)
               ELSE st.data,
     out   |-> IF k = 2 /\ action[c.cmd] = "view_action"
               THEN <<"print", getattr(st.data, c.value)>> ELSE st.out,
     calls |-> Append(st.calls, Stages[k])]

\* How the awaits of one step of user_loop behave: all return, or the one of
\* stage beh[1] suspends or raises (a step ends there).
Steps == {<<0, "return">>} \cup ((1..3) \X {"suspend", "raise"})
Behaves(beh, k) == IF beh[1] = k THEN beh[2] ELSE "return"

\* RunFrom with the post_command task awaited before the action.
RECURSIVE RunFromSwapped(_, _, _, _)
RunFromSwapped(k, c, st, beh) ==
    LET j == IF k = 2 THEN 3 ELSE IF k = 3 THEN 2 ELSE k
    IN  IF k > 3
        THEN [upc |-> "read", data |-> st.data, out |-> st.out, calls |-> st.calls]
        ELSE IF ~IsBound(j, c) THEN RunFromSwapped(k + 1, c, st, beh)
        ELSE IF Behaves(beh, k) = "raise"
             THEN [upc |-> "raised", data |-> st.data, out |-> st.out,
                   calls |-> Append(st.calls, Stages[j])]
        ELSE IF Behaves(beh, k) = "suspend"
             THEN [upc |-> Stages[k], data |-> Invoke(j, c, st).data,
                   out |-> Invoke(j, c, st).out, calls |-> Invoke(j, c, st).calls]
        ELSE RunFromSwapped(k + 1, c, Invoke(j, c, st), beh)

\* user_loop from stage k of command c up to its next suspension point: the
\* awaits of the stages that are left, each behaving as beh says.
RECURSIVE RunFrom(_, _, _, _)
RunFrom(k, c, st, beh) ==
    IF k > 3 THEN [upc |-> "read", data |-> st.data, out |-> st.out, calls |-> st.calls]
    ELSE IF ~IsBound(k, c) THEN RunFrom(k + 1, c, st, beh)
    ELSE IF Behaves(beh, k) = "raise"
         THEN [upc |-> "raised", data |-> st.data, out |-> st.out,
               calls |-> Append(st.calls, Stages[k])]
    ELSE IF Behaves(beh, k) = "suspend"
         THEN [upc |-> Stages[k], data |-> Invoke(k, c, st).data,
               out |-> Invoke(k, c, st).out, calls |-> Invoke(k, c, st).calls]
    ELSE RunFrom(k + 1, c, Invoke(k, c, st), beh)

\* on_parse_error without the except clause: the error ends user_loop.
on_parse_error_uncaught(msg) ==
    [upc |-> "raised", cur |-> NoCommand, data |-> data, out |-> NoOutput, calls |-> <<>>]

\* on_parse_error with the data reset to what run was called with.
on_parse_error_reset(msg) ==
    [upc |-> "read", cur |-> NoCommand, data |-> NoData, out |-> msg, calls |-> <<>>]

\* user_loop's except clause: the CommandParseError is printed, and the loop
\* goes on to the next line.
on_parse_error(msg) ==
    [upc |-> "read", cur |-> NoCommand, data |-> data, out |-> msg, calls |-> <<>>]

\* is_help with the test of show_help left out.
is_help_always(uinput) == uinput[1] = t_help

\* user_loop's test for the help branch.
is_help(uinput) == uinput[1] = t_help /\ show_help

\* One iteration of user_loop on the line l, up to its next suspension point.
dispatch(l, beh) ==
    LET uinput == split(l)
        printed(text) == [upc |-> "read", cur |-> NoCommand, data |-> data,
                          out |-> text, calls |-> <<>>]
    IN  IF Len(uinput) = 0 THEN printed(NoOutput)
        ELSE IF is_help(uinput)
        THEN IF Len(uinput) > 1
             THEN IF uinput[2] \in Keys(commands)
                  THEN printed(command_help_message(Get(commands, uinput[2])))
                  ELSE printed(NotFound(uinput[2]))
             ELSE printed(help_message)
        ELSE IF uinput[1] \in Keys(commands)
        THEN LET command == Get(commands, uinput[1])
                 params == parse(command, IF Len(uinput) > 1 THEN uinput[2] ELSE <<>>)
                 c == [name |-> uinput[1], cmd |-> command, value |-> params.value]
                 r == RunFrom(1, c, [data |-> data, out |-> NoOutput, calls |-> <<>>], beh)
             IN  IF ~params.ok THEN on_parse_error(params.msg)
                 ELSE [upc |-> r.upc, cur |-> c, data |-> r.data, out |-> r.out,
                       calls |-> r.calls]
        ELSE printed(NotFound(uinput[1]))

\* --------------------------------------------------------------------- run
UserAlive == upc \in {"read", "pre_command", "action", "post_command"}
BgAlive == bgpc \in {"start", "hook", "sleep"}

\* Gathered as asyncio.gather(..., return_exceptions=True) would be: an
\* exception of a coroutine never becomes the outcome of run.
GatheredReturnExceptions(u, b) == outcome

\* asyncio.gather after a step that leaves user_loop at u and background_loop
\* at b: the first exception of either coroutine is the outcome of run, and
\* the other coroutine is left running; a later exception is dropped.
Gathered(u, b) ==
    IF outcome # Running THEN outcome
    ELSE IF u = "raised" THEN RaisedBy("user_loop")
    ELSE IF b = "raised" THEN RaisedBy("background_loop")
    ELSE outcome

\* Game.run(data): both coroutines are scheduled; user_loop runs to its first
\* await of a line.
run ==
    /\ ~started
    /\ started' = TRUE
    /\ upc' = "read"
    /\ bgpc' = "start"
    /\ outcome' = Running
    /\ UNCHANGED <<config, commandVars, setupVars, cur, calls, out, remaining, bgCalls, bgBusy,
                   stdin, nlines, line, data, now>>

\* The operator types a line.
LineArrives ==
    /\ started /\ UserAlive
    /\ ~stdin
    /\ nlines < MaxLines
    /\ stdin' = TRUE
    /\ nlines' = nlines + 1
    /\ UNCHANGED <<config, commandVars, setupVars, started, userVars, bgVars, outcome, line, data, now>>

\* user_loop taking the next line while the command before is suspended in a
\* task or action.
user_loop_eager(l, beh) ==
    /\ started /\ UserAlive /\ bgpc # "start"
    /\ stdin
    /\ stdin' = FALSE
    /\ line' = l
    /\ LET r == dispatch(l, beh)
       IN  /\ upc' = r.upc
           /\ cur' = r.cur
           /\ calls' = r.calls
           /\ out' = r.out
           /\ data' = r.data
           /\ outcome' = Gathered(r.upc, "")
    /\ UNCHANGED <<config, commandVars, setupVars, started, bgVars, nlines, now>>

\* user_loop: ainput returns the line l, and the loop runs to its next await.
user_loop(l, beh) ==
    /\ started /\ upc = "read" /\ bgpc # "start"
    /\ stdin
    /\ stdin' = FALSE
    /\ line' = l
    /\ LET r == dispatch(l, beh)
       IN  /\ upc' = r.upc
           /\ cur' = r.cur
           /\ calls' = r.calls
           /\ out' = r.out
           /\ data' = r.data
           /\ outcome' = Gathered(r.upc, "")
    /\ UNCHANGED <<config, commandVars, setupVars, started, bgVars, nlines, now>>

\* user_loop: the task or action it awaits returns, and the loop runs on.
user_resume(beh) ==
    /\ started
    /\ \E k \in 1..3 :
         /\ upc = Stages[k]
         /\ LET r == RunFrom(k + 1, cur, [data |-> data, out |-> out, calls |-> calls], beh)
            IN  /\ upc' = r.upc
                /\ calls' = r.calls
                /\ out' = r.out
                /\ data' = r.data
                /\ outcome' = Gathered(r.upc, "")
    /\ UNCHANGED <<config, commandVars, setupVars, started, cur, bgVars, stdin, nlines, line, now>>

\* bg_invoke with the sleep left out: the loop is due again at once.
bg_invoke_nosleep(b) ==
    /\ bgCalls' = IF now < window THEN bgCalls + 1 ELSE bgCalls
    /\ bgpc' = IF b = "raise" THEN "raised" ELSE IF b = "suspend" THEN "hook" ELSE "sleep"
    /\ data' = IF b = "raise" THEN data ELSE background_task(data)
    /\ remaining' = 0
    /\ outcome' = Gathered("", IF b = "raise" THEN "raised" ELSE "")
    /\ UNCHANGED <<config, commandVars, setupVars, started, userVars, bgBusy, stdin, nlines, line, now>>

\* background_loop calls the background task, which behaves as b says; when
\* the task returns, asyncio.sleep(background_delay) starts.
bg_invoke(b) ==
    /\ bgCalls' = IF now < window THEN bgCalls + 1 ELSE bgCalls
    /\ bgpc' = IF b = "raise" THEN "raised" ELSE IF b = "suspend" THEN "hook" ELSE "sleep"
    /\ data' = IF b = "raise" THEN data ELSE background_task(data)
    /\ remaining' = IF b = "return" THEN background_delay ELSE 0
    /\ outcome' = Gathered("", IF b = "raise" THEN "raised" ELSE "")
    /\ UNCHANGED <<config, commandVars, setupVars, started, userVars, bgBusy, stdin, nlines, line, now>>

\* background_loop without its test of "background" in self.tasks.
background_loop_unguarded(b) ==
    /\ started /\ bgpc = "start"
    /\ bg_invoke(b)

\* background_loop, first step: without a background task it returns at once.
background_loop(b) ==
    /\ started /\ bgpc = "start"
    /\ IF "background" \in tasks
       THEN bg_invoke(b)
       ELSE /\ bgpc' = "returned"
            /\ UNCHANGED <<config, commandVars, setupVars, started, userVars, remaining, bgCalls,
                           bgBusy, outcome, stdin, nlines, line, data, now>>

\* background_loop: the background task it awaits returns; the sleep starts.
bg_resume ==
    /\ started /\ bgpc = "hook"
    /\ bgpc' = "sleep"
    /\ remaining' = background_delay
    /\ UNCHANGED <<config, commandVars, setupVars, started, userVars, bgCalls, bgBusy, outcome,
                   stdin, nlines, line, data, now>>

\* WakeDue on an event loop that a blocking read of the line holds up.
WakeDueBlocked ==
    /\ bgpc = "sleep" /\ remaining = 0 /\ (now < window \/ data.timer < MaxTimer)
    /\ upc # "read"

\* background_loop: the sleep is over, and the loop calls the task again.
WakeDue == bgpc = "sleep" /\ remaining = 0 /\ (now < window \/ data.timer < MaxTimer)
bg_wake(b) ==
    /\ started /\ WakeDue
    /\ bg_invoke(b)

\* The clock advances by one tick, unless background_loop is due to run.
Tick ==
    /\ started /\ bgpc \in {"hook", "sleep"}
    /\ ~WakeDue
    /\ now' = IF now < window THEN now + 1 ELSE now
    /\ remaining' = IF bgpc = "sleep" /\ remaining > 0 THEN remaining - 1 ELSE remaining
    /\ bgBusy' = IF bgpc = "hook" /\ now < window THEN bgBusy + 1 ELSE bgBusy
    /\ UNCHANGED <<config, commandVars, setupVars, started, userVars, bgpc, bgCalls, outcome,
                   stdin, nlines, line, data>>

\* The task of run is cancelled from outside: gather cancels both coroutines,
\* each at the await where it is suspended.
Cancel ==
    /\ started /\ (UserAlive \/ BgAlive)
    /\ upc' = IF UserAlive THEN "cancelled" ELSE upc
    /\ bgpc' = IF BgAlive THEN "cancelled" ELSE bgpc
    /\ outcome' = IF outcome = Running THEN Cancelled ELSE outcome
    /\ UNCHANGED <<config, commandVars, setupVars, started, cur, calls, out, remaining, bgCalls,
                   bgBusy, stdin, nlines, line, data, now>>

\* The example game as set up before run is called, with any of the tasks
\* bound and the default background_delay.
Init ==
    /\ show_help \in BOOLEAN
    /\ background_delay = 1
    /\ window = 0
    /\ commands = ExampleCommands
    /\ tasks \in SUBSET TaskTypes
    /\ action = ExampleActions
    /\ decorators = {}
    /\ regName = <<>>
    /\ regErr = NoError
    /\ nregs = 0
    /\ NotStarted

Next ==
    \/ run
    \/ LineArrives
    \/ \E l \in Lines, beh \in Steps : user_loop(l, beh)
    \/ \E beh \in Steps : user_resume(beh)
    \/ \E b \in Behaviours : background_loop(b)
    \/ bg_resume
    \/ \E b \in Behaviours : bg_wake(b)
    \/ Tick
    \/ Cancel

Spec == Init /\ [][Next]_vars

\* The event loop runs every coroutine that is ready and every timer that is
\* due, and a task or action that is awaited returns in the end; no line need
\* ever arrive, and nobody need cancel the run.
Fairness ==
    /\ WF_vars(run)
    /\ WF_vars(\E l \in Lines, beh \in Steps : user_loop(l, beh))
    /\ WF_vars(\E beh \in Steps : user_resume(beh))
    /\ WF_vars(\E b \in Behaviours : background_loop(b))
    /\ WF_vars(bg_resume)
    /\ WF_vars(\E b \in Behaviours : bg_wake(b))
    /\ WF_vars(Tick)

FairSpec == Spec /\ Fairness

\* The run observed on the clock for MaxTime ticks, with any configured delay
\* and a console on which no line arrives.
TimedInit ==
    /\ show_help \in BOOLEAN
    /\ background_delay \in 1..MaxDelay
    /\ window = MaxTime
    /\ commands = ExampleCommands
    /\ tasks \in SUBSET TaskTypes
    /\ action = ExampleActions
    /\ decorators = {}
    /\ regName = <<>>
    /\ regErr = NoError
    /\ nregs = 0
    /\ NotStarted

TimedNext ==
    \/ run
    \/ \E b \in Behaviours : background_loop(b)
    \/ bg_resume
    \/ \E b \in Behaviours : bg_wake(b)
    \/ Tick
    \/ Cancel

TimedSpec == TimedInit /\ [][TimedNext]_vars

\* The example game run with no background task, so that background_loop
\* returns at once and user_loop is followed on its own; with show_help off,
\* a game may have registered a command under the name "help". The lines are
\* those that ask for help, and some others.
HelpLines == {L_help, L_help_blank, L_help_add, L_help_bogus, L_help_timer, L_help_add_1,
              L_empty, L_bogus, L_add_1}
HelpCommand == <<t_help, ViewCommand>>

UserInit ==
    /\ show_help \in BOOLEAN
    /\ background_delay = 1
    /\ window = 0
    /\ commands \in {ExampleCommands} \cup
                     (IF show_help THEN {} ELSE {Append(ExampleCommands, HelpCommand)})
    /\ tasks \in SUBSET {"pre_command", "post_command"}
    /\ action = ExampleActions
    /\ decorators = {}
    /\ regName = <<>>
    /\ regErr = NoError
    /\ nregs = 0
    /\ NotStarted

UserNext ==
    \/ run
    \/ LineArrives
    \/ \E l \in HelpLines, beh \in Steps : user_loop(l, beh)
    \/ \E beh \in Steps : user_resume(beh)
    \/ \E b \in Behaviours : background_loop(b)
    \/ Cancel

UserSpec == UserInit /\ [][UserNext]_vars

\* ------------------------------------------------------- a Command object
\* The strings handed to parse: every string of up to MaxText of these
\* characters, and some words.
TextChars == {"1", "2", "-", " "}
Texts ==
    UNION {[1..n -> TextChars] : n \in 0..MaxText}
        \cup {w_counter, w_timer, <<"a", "b", "c">>}

\* How a method call ended.
Returned(op, value) == [op |-> op, status |-> "returned", value |-> value]
Raised(op, value) == [op |-> op, status |-> "raised", value |-> value]
Suspended(op, value) == [op |-> op, status |-> "suspended", value |-> value]

\* The actions bound to the command of schema cmd: its action in the example
\* game, or the action without docstring.
Bindable(cmd) == ({ExampleActions[cmd]} \ {None}) \cup {"bare_action"}

\* Command.register_action() and the decorator it returns, applied to a.
register_action(a) ==
    /\ self # None /\ ret.status # "suspended"
    /\ action' = [action EXCEPT ![self] = a]
    /\ ret' = Returned("register_action", a)
    /\ UNCHANGED <<config, self, arg, commands, tasks, decorators, regName, regErr, nregs,
                   started, userVars, bgVars, outcome, stdin, nlines, line, data, now>>

\* Command.parse(arg): the schema object, or CommandParseError.
Command_parse ==
    /\ self # None /\ ret.status # "suspended"
    /\ ret' = IF parse(self, arg).ok THEN Returned("parse", parse(self, arg).value)
              ELSE Raised("parse", parse(self, arg).msg)
    /\ UNCHANGED <<config, self, arg, setupVars, started, userVars, bgVars, outcome,
                   stdin, nlines, line, data, now>>

\* Command.help_message()
Command_help_message ==
    /\ self # None /\ ret.status # "suspended"
    /\ ret' = Returned("help_message", command_help_message(self))
    /\ UNCHANGED <<config, self, arg, setupVars, started, userVars, bgVars, outcome,
                   stdin, nlines, line, data, now>>

\* Command.execute(data, params), up to its return or first suspension, with
\* the params that parse returned. The action, when there is one, behaves as
\* b says.
Command_execute(b) ==
    /\ self # None
    /\ ret.op = "parse" /\ ret.status = "returned"
    /\ Len(calls) < MaxCalls
    /\ LET c == [name |-> <<>>, cmd |-> self, value |-> ret.value]
           r == Invoke(2, c, [data |-> data, out |-> out, calls |-> calls])
       IN  IF ~IsBound(2, c)
           THEN /\ ret' = Returned("execute", ret.value)
                /\ UNCHANGED <<data, out, calls>>
           ELSE IF b = "raise"
           THEN /\ ret' = Raised("execute", ret.value)
                /\ calls' = r.calls
                /\ UNCHANGED <<data, out>>
           ELSE /\ ret' = IF b = "suspend" THEN Suspended("execute", ret.value)
                          ELSE Returned("execute", ret.value)
                /\ data' = r.data /\ out' = r.out /\ calls' = r.calls
    /\ UNCHANGED <<config, self, arg, setupVars, started, upc, cur, bgVars, outcome,
                   stdin, nlines, line, now>>

\* The action that Command.execute awaits returns, and execute returns.
Command_resume ==
    /\ ret.status = "suspended"
    /\ ret' = Returned(ret.op, ret.value)
    /\ UNCHANGED <<config, self, arg, setupVars, started, userVars, bgVars, outcome,
                   stdin, nlines, line, data, now>>

\* A Command just created by create_command from any of the schemas, any
\* string to parse and some game data; no Game.
CommandInit ==
    /\ show_help \in BOOLEAN
    /\ background_delay = 1
    /\ window = 0
    /\ commands = <<>>
    /\ tasks = {}
    /\ action = [c \in Schemas |-> None]
    /\ decorators = {}
    /\ regName = <<>>
    /\ regErr = NoError
    /\ nregs = 0
    /\ started = FALSE
    /\ upc = "init" /\ bgpc = "init" /\ outcome = NotRun
    /\ stdin = FALSE /\ nlines = 0 /\ line = NoLine
    /\ cur = NoCommand /\ calls = <<>> /\ out = NoOutput
    /\ data \in {NoData, [NoData EXCEPT !.counter = 5, !.timer = 2]}
    /\ now = 0 /\ remaining = 0 /\ bgCalls = 0 /\ bgBusy = 0
    /\ self \in Schemas /\ arg \in Texts /\ ret = NoCall

CommandNext ==
    \/ \E a \in Bindable(self) : register_action(a)
    \/ Command_parse
    \/ Command_help_message
    \/ \E b \in Behaviours : Command_execute(b)
    \/ Command_resume

CommandSpec == CommandInit /\ [][CommandNext]_vars

\* ------------------------------------------------------------------ claims
\* The remainder user_loop hands to Command.parse for the line l.
Remainder(l) == IF Len(split(l)) > 1 THEN split(l)[2] ELSE <<>>

\* The line l names a registered command (and is not a help request).
IsCommandLine(l) ==
    /\ l # NoLine
    /\ Len(split(l)) > 0
    /\ ~(split(l)[1] = t_help /\ show_help)
    /\ split(l)[1] \in Keys(commands)

\* The step is an iteration of user_loop: only user_loop takes the line.
ReadStep == stdin /\ ~stdin'

\* C1: for a line that names a registered command and parses, with the
\* pre_command task, the action and the post_command task all bound, user_loop
\* invokes pre_command, then the action, then post_command: each once, each
\* only when the one before has returned, and in no other order.
C1_HookOrder ==
    (cur.cmd # None /\ {"pre_command", "post_command"} \subseteq tasks
        /\ action[cur.cmd] # None) =>
        /\ upc = "pre_command" => calls = <<"pre_command">>
        /\ upc = "action" => calls = <<"pre_command", "action">>
        /\ upc \in {"post_command", "read"} =>
              calls = <<"pre_command", "action", "post_command">>
        /\ upc \in {"raised", "cancelled"} =>
              calls \in {<<"pre_command">>, <<"pre_command", "action">>,
                         <<"pre_command", "action", "post_command">>}

C1_Witness ==
    /\ line = L_add_1 /\ upc = "read" /\ cur.cmd = AddCommand
    /\ calls = <<"pre_command", "action", "post_command">>
    /\ data.n_actions = 1 /\ data.counter = 1 /\ data.n_post = 1

\* C2: when the token is a registered command and Command.parse of the
\* remainder raises CommandParseError, user_loop prints the error's message,
\* invokes no task and no action, leaves the data unchanged, and goes on to
\* await the next line; run does not end.
C2_ParseErrorStep ==
    (ReadStep /\ IsCommandLine(line')
        /\ ~parse(Get(commands, split(line')[1]), Remainder(line')).ok) =>
        /\ out' \in {<<"Command does not match pattern: ", "(?P<value>[\\d-]+)">>,
                    <<"Command does not match pattern: ",
                      "(?P<value>counter|timer|n_actions)">>,
                    <<"Parameters failed to validate.">>}
        /\ out' = parse(Get(commands, split(line')[1]), Remainder(line')).msg
        /\ calls' = <<>>
        /\ data' = data
        /\ upc' = "read"
        /\ outcome' = outcome

C2_ParseError == [][C2_ParseErrorStep]_vars

C2_Witness ==
    /\ line = L_add_abc /\ upc = "read" /\ calls = <<>>
    /\ out = <<"Command does not match pattern: ", "(?P<value>[\\d-]+)">>
    /\ {"pre_command", "post_command"} \subseteq tasks
    /\ data.n_actions = 0 /\ data.counter = 0 /\ data.n_post = 0
    /\ outcome = Running

\* C3 as stated: registering under a name that is already in the registry
\* fails with the duplicate-name error and leaves the registry unchanged, and
\* a name, once mapped to a command, is never mapped to another one.
C3_Step ==
    /\ (nregs' = nregs + 1 /\ regName' \in Keys(commands)
          /\ ~(show_help /\ regName' = t_help)) =>
            (regErr' = DuplicateName(regName') /\ commands' = commands)
    /\ \A n \in Keys(commands) :
          n \in Keys(commands') /\ Get(commands', n) = Get(commands, n)

C3_Original == [][C3_Step]_vars

\* C4: while show_help is set, register_command("help") fails with the
\* reserved-name error, which is not the duplicate-name error, and "help" is
\* never a key of the registry; while show_help is not set, "help" is
\* registered as any other name is.
C4_Inv ==
    /\ \A n \in Names : ReservedName # DuplicateName(n)
    /\ show_help =>
          /\ t_help \notin Keys(commands)
          /\ t_help \notin decorators
          /\ regName = t_help => regErr = ReservedName

C4_Step ==
    (nregs' = nregs + 1 /\ regName' = t_help) =>
        IF show_help
        THEN regErr' = ReservedName /\ decorators' = decorators /\ commands' = commands
        ELSE /\ regErr' = IF t_help \in Keys(commands)
                          THEN <<"ValueError", "Command with name \"", t_help,
                                 "\" already registered.">>
                          ELSE <<>>
             /\ t_help \notin Keys(commands) => t_help \in decorators'

C4_Reserved == [](C4_Inv) /\ [][C4_Step]_vars

C4_Witness ==
    /\ show_help /\ regName = t_help /\ regErr = ReservedName
    /\ Keys(commands) = {t_add, t_view}

\* C5: user_loop and background_loop advance independently. With a
\* background task bound, the task goes on being invoked (up to the MaxTimer
\* invocations that are followed) whether or not a line ever arrives; and a
\* line that arrives while background_loop sleeps is taken by user_loop.
C5_Independent ==
    /\ (started /\ "background" \in tasks) ~>
          (data.timer = MaxTimer \/ bgpc \in {"raised", "cancelled"})
    /\ (stdin /\ bgpc = "sleep") ~> (~stdin \/ ~UserAlive)

C5_Witness ==
    /\ "background" \in tasks /\ data.timer = MaxTimer
    /\ nlines = 0 /\ upc = "read" /\ outcome = Running

\* The run is observed: the background task is bound, background_loop has
\* not ended, and the window is open.
Observed ==
    /\ started /\ "background" \in tasks
    /\ bgpc \in {"hook", "sleep"}
    /\ now < window

\* C6 as stated: over a window of length now from the start of the run, the
\* number of invocations of the background task is within 1 of
\* now \div background_delay, and is not zero once now >= background_delay.
C6_Original ==
    Observed =>
        /\ bgCalls - (now \div background_delay) \in {-1, 0, 1}
        /\ now >= background_delay => bgCalls >= 1

\* C6, amended: the number of invocations is within 1 of
\* (now - bgBusy) \div background_delay, where bgBusy is the time spent inside
\* the invocations; so it is at least 1, at most now \div background_delay + 1,
\* and within 1 of now \div background_delay when the invocations take no time.
\* Invocations and delays alternate, starting with an invocation.
C6_Inv ==
    Observed =>
        /\ bgCalls - ((now - bgBusy) \div background_delay) \in {0, 1}
        /\ bgCalls >= 1
        /\ bgCalls <= (now \div background_delay) + 1
        /\ bgBusy = 0 => bgCalls - (now \div background_delay) \in {0, 1}

C6_Step ==
    /\ bgCalls' = bgCalls + 1 => (bgpc = "start" \/ (bgpc = "sleep" /\ remaining = 0))
    /\ (bgpc' = "sleep" /\ (bgpc # "sleep" \/ bgCalls' # bgCalls)) =>
          remaining' = background_delay
    /\ (bgpc = "hook" /\ bgpc' # "hook") => bgpc' \in {"sleep", "cancelled"}

C6_Amended == [](C6_Inv) /\ [][C6_Step]_vars

C6_Witness ==
    /\ Observed /\ background_delay = 1
    /\ bgBusy = 2 /\ bgCalls = 2 /\ now = 3

\* C7 as stated: run starts user_loop and background_loop together and blocks
\* until either of them terminates.
C7_Original ==
    started =>
        /\ upc # "init" /\ bgpc # "init"
        /\ (upc \in {"returned", "raised", "cancelled"}
              \/ bgpc \in {"returned", "raised", "cancelled"}) => outcome # Running

\* C7, amended: run starts user_loop and background_loop together and blocks
\* until either of them terminates abnormally: the first exception of either
\* is the outcome of run. A normal return of background_loop, which happens
\* at once when no background task is bound, does not end run.
C7_Amended ==
    started =>
        /\ upc # "init" /\ bgpc # "init"
        /\ outcome = Running <=>
              (UserAlive /\ bgpc \in {"start", "hook", "sleep", "returned"})
        /\ (upc = "raised" \/ bgpc = "raised") <=>
              outcome \in {RaisedBy("user_loop"), RaisedBy("background_loop")}
        /\ outcome = RaisedBy("user_loop") => upc = "raised"
        /\ outcome = RaisedBy("background_loop") => bgpc = "raised"
        /\ bgpc = "returned" => "background" \notin tasks

C7_Witness ==
    /\ bgpc = "returned" /\ outcome = Running
    /\ upc = "read" /\ line = L_add_1 /\ data.counter = 1

\* C8 as stated: an exception raised in the pre_command task, the action or
\* the post_command task ends user_loop with the rest of the command not run,
\* and is the outcome of run.
C8_Original ==
    upc = "raised" =>
        /\ calls # <<>>
        /\ outcome = RaisedBy("user_loop")

\* The tasks and action that user_loop awaits for the command c.
BoundStages(c) ==
    (IF "pre_command" \in tasks THEN <<"pre_command">> ELSE <<>>)
        \o (IF action[c.cmd] # None THEN <<"action">> ELSE <<>>)
        \o (IF "post_command" \in tasks THEN <<"post_command">> ELSE <<>>)

\* C9 as stated: a cancellation never leaves a command half-applied: when
\* user_loop is cancelled, every task and action of the command it handled
\* last has been invoked.
C9_Original ==
    (upc = "cancelled" /\ cur.cmd # None) => calls = BoundStages(cur)

\* C10: with no background task bound, background_loop does nothing for the
\* whole run (no invocation, no sleep, no change of the data), and user_loop
\* still takes and dispatches the lines that arrive.
C10_NoBackground ==
    "background" \notin tasks =>
        /\ bgpc \in {"init", "start", "returned", "cancelled"}
        /\ data.timer = 0 /\ remaining = 0 /\ bgCalls = 0 /\ bgBusy = 0
        /\ (upc = "read" /\ stdin /\ bgpc = "returned") =>
              ENABLED (\E l \in Lines, beh \in Steps : user_loop(l, beh))

C10_Witness ==
    /\ "background" \notin tasks /\ bgpc = "returned"
    /\ line = L_add_1 /\ upc = "read" /\ data.counter = 1 /\ data.timer = 0

\* The patterns that the example game registers.
Registered == {AddCommand, AddMultipleCommand, ViewCommand}

\* Every capture of the group of cmd in s coerces to the type of the field.
Coerces(cmd, s) ==
    \A i \in 1..Len(captures(cmd, s)) :
        annotation(cmd) # "str" => IsInt(captures(cmd, s)[i])

\* C11 as stated: for every registered pattern and every line, parse
\* succeeds if and only if the line matches the pattern in full; on success a
\* non-list field is the text of its single capture, coerced, and a list
\* field the sequence of all captures of its group, each coerced.
C11_Original ==
    (ret.op = "parse" /\ self \in Registered) =>
        /\ ret.status = "returned" <=> fullmatch(self, arg)
        /\ (ret.status = "returned" /\ self = AddMultipleCommand) =>
              /\ Len(ret.value) = Len(captures(self, arg))
              /\ \A i \in 1..Len(ret.value) : ret.value[i] = IntVal(captures(self, arg)[i])
        /\ (ret.status = "returned" /\ self = AddCommand) => ret.value = IntVal(arg)
        /\ (ret.status = "returned" /\ self = ViewCommand) => ret.value = arg

\* What parse hands to validation validates: every capture coerces, and the
\* group of a non-list field took part in the match (None is no int and no
\* str).
Validates(cmd, s) ==
    /\ Coerces(cmd, s)
    /\ ~type_is_list(annotation(cmd)) => captures(cmd, s) # <<>>

\* C11, amended: for every pattern and every line, parse succeeds if and
\* only if the line matches the pattern in full (not a prefix) and what is
\* handed to validation validates: every captured text coerces to the
\* declared type, and the group of an int or str field took part in the
\* match (it is handed over as None when it did not).
\* A line that matches in full and does not validate fails with "Parameters
\* failed to validate.", a line that does not match fails with the message
\* naming the pattern. On success a non-list field is the text of its single
\* capture, coerced, and a list field is the sequence of all captures of its
\* group, in match order, each coerced.
C11_Amended ==
    ret.op = "parse" =>
        /\ ret.status = "returned" <=> (fullmatch(self, arg) /\ Validates(self, arg))
        /\ (ret.status = "raised" /\ fullmatch(self, arg)) =>
              ret.value = <<"Parameters failed to validate.">>
        /\ (ret.status = "raised" /\ ~fullmatch(self, arg)) =>
              ret.value = <<"Command does not match pattern: ", pattern(self)>>
        /\ (ret.status = "returned" /\ self = AddMultipleCommand) =>
              /\ Len(ret.value) = Len(captures(self, arg))
              /\ \A i \in 1..Len(ret.value) : ret.value[i] = IntVal(captures(self, arg)[i])
        /\ (ret.status = "returned" /\ self \in {AddCommand, OptionalCommand}) =>
              captures(self, arg) = <<arg>> /\ ret.value = IntVal(arg)
        /\ (ret.status = "returned" /\ self = ViewCommand) =>
              captures(self, arg) = <<arg>> /\ ret.value = arg
        \* some lines, with what parse makes of them
        /\ (self = OptionalCommand /\ arg = <<"2">>) => ret = Returned("parse", 2)
        /\ (self = OptionalCommand /\ arg = <<>>) =>
              ret = Raised("parse", <<"Parameters failed to validate.">>)
        /\ (self = AddCommand /\ arg = <<"-", "2">>) => ret = Returned("parse", -2)
        /\ (self = AddCommand /\ arg = <<"1", "2">>) => ret = Returned("parse", 12)
        /\ (self = AddCommand /\ arg = <<"1", " ", "2">>) =>
              ret = Raised("parse", <<"Command does not match pattern: ",
                                      "(?P<value>[\\d-]+)">>)
        /\ (self = AddCommand /\ arg \in {<<"-">>, <<"1", "-", "2">>}) =>
              ret = Raised("parse", <<"Parameters failed to validate.">>)
        /\ (self = AddMultipleCommand /\ arg = <<"1", " ", "2">>) =>
              ret = Returned("parse", <<1, 2>>)
        /\ (self = AddMultipleCommand /\ arg = <<"1", "2", " ">>) =>
              ret = Returned("parse", <<12>>)
        /\ (self = AddMultipleCommand /\ arg \in {<<>>, <<" ", "1">>, <<"a", "b", "c">>}) =>
              ret = Raised("parse", <<"Command does not match pattern: ",
                                      "(?:(?P<values>[\\d-]+)\\s{0,1})+">>)
        /\ (self = ViewCommand /\ arg = w_timer) => ret = Returned("parse", w_timer)
        /\ (self = ViewCommand /\ arg = <<"1">>) => ret.status = "raised"

C11_Witness ==
    /\ self = AddMultipleCommand /\ arg = <<"-", "1", " ">>
    /\ ret.op = "parse" /\ ret.status = "returned" /\ ret.value = <<-1>>

\* C12 as stated: when the line matches in full and the group of a singular
\* field did not participate in the match, the field is no key of the params
\* handed to validation, the default of the field applies, and parse
\* succeeds.
C12_Original ==
    (ret.op = "parse" /\ ~type_is_list(annotation(self))
        /\ fullmatch(self, arg) /\ captures(self, arg) = <<>>) =>
        /\ ~Params(self, arg).present
        /\ ret.status = "returned"
        /\ HasDefault(self) => ret.value = Default(self)

\* The first token of the line l, and what follows it.
Token(l) == split(l)[1]

\* C13: for every line whose first token is no registered name (and is not
\* "help" while show_help is set), user_loop prints exactly
\* Command "<token>" not found. with that token, invokes no task and no
\* action, leaves the data unchanged, and goes on to await the next line.
C13_Step ==
    /\ (ReadStep /\ Len(split(line')) > 0 /\ ~(Token(line') = t_help /\ show_help)
          /\ Token(line') \notin Keys(commands)) =>
          /\ out' = <<"Command \"", Token(line'), "\" not found.">>
          /\ calls' = <<>> /\ cur'.cmd = None
          /\ data' = data
          /\ upc' = "read" /\ outcome' = outcome
    /\ (ReadStep /\ line' = L_bogus) =>
          out' = <<"Command \"", <<"b", "o", "g", "u", "s">>, "\" not found.">>
    /\ (ReadStep /\ line' = L_help_add /\ ~show_help /\ t_help \notin Keys(commands)) =>
          out' = <<"Command \"", <<"h", "e", "l", "p">>, "\" not found.">>

C13_NotFound == [][C13_Step]_vars

C13_Witness ==
    /\ line = L_bogus /\ upc = "read" /\ calls = <<>> /\ cur.cmd = None
    /\ out = <<"Command \"", t_bogus, "\" not found.">>
    /\ {"pre_command", "post_command"} \subseteq tasks
    /\ data.n_actions = 0 /\ data.n_post = 0 /\ data.counter = 0
    /\ outcome = Running /\ nlines = 1

\* The registry help of the example game.
ExampleHelp ==
    <<"Commands:", <<<<t_add, "A command to add a value to the counter.">>,
                     <<t_view, "A command to view a value.">>>>>>

\* C14: with show_help set, a line whose token is "help" is handled by the
\* help branch and never dispatched: with no argument the registry help is
\* printed, with an argument that is a registered name that command's help,
\* with any other argument the not-found message naming the argument; no task
\* and no action is invoked. With show_help not set, "help" is a token as any
\* other: dispatched when it is registered, reported as not found when not.
C14_Step ==
    (ReadStep /\ Len(split(line')) > 0 /\ Token(line') = t_help) =>
        IF show_help
        THEN /\ calls' = <<>> /\ cur'.cmd = None /\ data' = data /\ upc' = "read"
             /\ Len(split(line')) = 1 => out' = help_message
             /\ (Len(split(line')) > 1 /\ Remainder(line') \in Keys(commands)) =>
                   out' = command_help_message(Get(commands, Remainder(line')))
             /\ (Len(split(line')) > 1 /\ Remainder(line') \notin Keys(commands)) =>
                   out' = <<"Command \"", Remainder(line'), "\" not found.">>
             /\ (line' \in {L_help, L_help_blank} /\ commands = ExampleCommands) =>
                   out' = ExampleHelp
             /\ line' = L_help_add =>
                   out' = <<"Adds the value to the counter.", "Usage:",
                            <<"Pattern: ", "(?P<value>[\\d-]+)">>, "Parameters:",
                            <<<<"value", "The value to add to the counter.">>>>>>
             /\ line' = L_help_add_1 =>
                   out' = <<"Command \"", <<"a", "d", "d", " ", "1">>, "\" not found.">>
        ELSE IF t_help \in Keys(commands)
        THEN IF parse(Get(commands, t_help), Remainder(line')).ok
             THEN /\ cur'.name = t_help /\ cur'.cmd = Get(commands, t_help)
                  /\ cur'.value = parse(Get(commands, t_help), Remainder(line')).value
                  /\ calls' # <<>>
                  /\ upc' = "read" => calls' = BoundStages(cur')
             ELSE /\ out' = parse(Get(commands, t_help), Remainder(line')).msg
                  /\ calls' = <<>>
        ELSE /\ out' = <<"Command \"", t_help, "\" not found.">>
             /\ calls' = <<>> /\ data' = data

C14_Help == [][C14_Step]_vars

C14_Witness ==
    /\ ~show_help /\ t_help \in Keys(commands)
    /\ line = L_help_timer /\ upc = "read" /\ cur.name = t_help
    /\ calls = <<"pre_command", "action", "post_command">>
    /\ out = <<"print", 0>>

\* C15: for a Command with no action bound, execute(data, params) returns
\* without raising and without suspending and leaves the data as it was, for
\* any data and any params; nothing is invoked and nothing is printed.
C15_Step ==
    (ret'.op = "execute" /\ ret.op = "parse" /\ action[self] = None) =>
        /\ ret'.status = "returned"
        /\ data' = data
        /\ calls' = calls /\ out' = out
        /\ action' = action

C15_NoAction == [][C15_Step]_vars

C15_Witness ==
    /\ self = AddCommand /\ arg = <<"2", "1">> /\ action[self] = None
    /\ ret.op = "execute" /\ ret.status = "returned" /\ ret.value = 21
    /\ data = [NoData EXCEPT !.counter = 5, !.timer = 2] /\ calls = <<>>

\* C16 as stated: Command.help_message() begins with the description of the
\* action when the action has one, and with "No description available." when
\* no action is bound or the action bound has no description; the field is
\* listed with its description, or with the same placeholder.
C16_Original ==
    ret.op = "help_message" =>
        /\ ret.value[1] = IF action[self] # None /\ action_doc(action[self]) # None
                          THEN action_doc(action[self])
                          ELSE "No description available."
        /\ ret.value[5] = <<<<model_field(self),
                              IF field_doc(self) # None THEN field_doc(self)
                              ELSE "No description available.">>>>

\* s is a prefix of t.
IsPrefix(s, t) == Len(s) <= Len(t) /\ s = SubSeq(t, 1, Len(s))

\* C17: user_loop handles one line at a time. It takes the next line only
\* at its read, when every task and action of the command before has
\* returned; while a task or action is suspended, lines may arrive but are
\* not read, and the invocations made are those of one command, in order.
C17_Inv ==
    /\ cur.cmd # None => IsPrefix(calls, BoundStages(cur))
    /\ cur.cmd = None => (calls = <<>> /\ upc \in {"init", "read", "cancelled"})
    /\ upc \in {"pre_command", "action", "post_command"} =>
          (cur.cmd # None /\ calls # <<>> /\ calls[Len(calls)] = upc)
    /\ (upc = "read" /\ cur.cmd # None) => calls = BoundStages(cur)

C17_Step ==
    /\ ReadStep => upc = "read"
    /\ (calls' # calls /\ ~ReadStep) =>
          /\ upc \in {"pre_command", "action", "post_command"}
          /\ cur'.name = cur.name /\ cur'.cmd = cur.cmd /\ line' = line
          /\ IsPrefix(calls, calls')
    /\ (upc \in {"pre_command", "action", "post_command"} /\ upc' # upc) =>
          (~ReadStep /\ line' = line /\ cur'.name = cur.name)

C17_OneLine == [](C17_Inv) /\ [][C17_Step]_vars

C17_Witness ==
    /\ upc = "action" /\ stdin /\ nlines = 2 /\ line = L_add_1
    /\ calls = <<"pre_command", "action">> /\ bgpc = "sleep" /\ data.timer = 2

\* The step invokes the background task, which does not raise.
BgInvoked ==
    /\ bgpc = "start" \/ (bgpc = "sleep" /\ remaining = 0)
    /\ bgpc' = "hook" \/ (bgpc' = "sleep" /\ remaining' = background_delay)

\* The step invokes the task or action of the stage, which does not raise.
Invoked(stage) ==
    \E i \in 1..Len(calls') :
        /\ calls'[i] = stage
        /\ ReadStep \/ i > Len(calls)
        /\ ~(upc' = "raised" /\ i = Len(calls'))

\* C18: a step of one coroutine runs from one suspension point to the next
\* with nothing of the other in between, so every update of a task or action
\* takes effect on the data as the other coroutine left it and none is lost:
\* counter grows by the value of every add action invoked, n_actions by one
\* for every pre_command task, timer by one for every background task, and
\* nothing else changes them.
C18_Step ==
    /\ data'.timer = data.timer + (IF BgInvoked THEN 1 ELSE 0)
    /\ data'.n_actions = data.n_actions + (IF Invoked("pre_command") THEN 1 ELSE 0)
    /\ data'.n_post = data.n_post + (IF Invoked("post_command") THEN 1 ELSE 0)
    /\ data'.counter = data.counter
          + (IF Invoked("action") /\ cur'.cmd = AddCommand THEN cur'.value ELSE 0)
    /\ ~(BgInvoked /\ (ReadStep \/ calls' # calls))

C18_Atomic == [][C18_Step]_vars

C18_Witness ==
    /\ data.counter = -1 /\ data.timer = 2 /\ data.n_actions = 2 /\ data.n_post = 1
    /\ upc = "action" /\ bgpc = "hook"

\* The line l asks for nothing that changes the data: it is empty, a help
\* request, names no command, or does not parse.
Harmless(l) ==
    \/ split(l) = <<>>
    \/ Token(l) = t_help /\ show_help
    \/ Token(l) \notin Keys(commands)
    \/ ~parse(Get(commands, Token(l)), Remainder(l)).ok

\* C19: the runtime never writes, copies or resets the data: it changes only
\* in a step in which a pre_command task, an action, a post_command task or
\* the background task is invoked. Reading an empty line (which prints
\* nothing), a help request, a token that is not found, a parse failure, the
\* delay of background_loop, the start of run and its cancellation leave it
\* as it is.
C19_Step ==
    /\ data' # data =>
          \/ BgInvoked
          \/ \E k \in 1..3 : Invoked(Stages[k])
    /\ (ReadStep /\ Harmless(line')) => (data' = data /\ calls' = <<>>)
    /\ (ReadStep /\ split(line') = <<>>) => out' = NoOutput
    /\ (ReadStep /\ line' \in {L_empty, L_blank, L_help, L_help_add, L_help_bogus,
                                  L_bogus, L_add, L_add_dash, L_add_abc}) => data' = data
    /\ (now' # now \/ remaining' < remaining) => data' = data
    /\ (started' # started \/ upc' = "cancelled" \/ bgpc' = "cancelled") => data' = data

C19_Frame == [][C19_Step]_vars

C19_Witness ==
    /\ line = L_add_abc /\ nlines = 2 /\ upc = "read"
    /\ data.counter = 1 /\ data.n_actions = 1 /\ data.timer = 1

\* C20 as stated: the action of a Command starts unbound, a first binding
\* sets it, and once it is bound no later binding replaces it.
C20_Step ==
    /\ \A c \in Schemas : action[c] # None => action'[c] = action[c]
    /\ (ret'.op = "register_action" /\ action[self] = None) => action'[self] = ret'.value

C20_Original == [][C20_Step]_vars

====
